---- MODULE Spec2Model ----
(***************************************************************************)
(* DbQuotaNoLockDriver (neutron/db/quota/driver_nolock.py): the lock-free  *)
(* quota reservation driver.  make_reservation runs, inside one write      *)
(* transaction, (1) the limits lookup, (2) the purge of the project's      *)
(* expired reservations, (3) one count per requested resource and (4) the  *)
(* creation of the reservation or the OverQuota failure.  The transaction  *)
(* is modelled with read-committed visibility: every statement reads the   *)
(* committed store, the transaction's own deletes and insert are applied   *)
(* to the store at commit and are dropped at rollback.                     *)
(***************************************************************************)
EXTENDS Integers, Sequences, FiniteSets, TLC

\* ---------------------------------------------------------------- bounds
MaxLimit == 1        \* configured limits are -1..MaxLimit
MaxTime == 1         \* the clock runs 0..MaxTime
MaxId == 3           \* at most MaxId reservations are ever created
MaxRetries == 1      \* retries of the retry decorator

\* ------------------------------------------------------------ the universe
Tenants == {"t1", "t2"}
Kinds == {"a", "b", "z"}
Procs == {"p1", "p2"}

\* The `resources` argument: the kinds that have a tracked resource object.
Catalog == {"a", "b"}

\* Name order used by sorted(): position in the alphabet.
Rank(k) == CASE k = "a" -> 1 [] k = "b" -> 2 [] k = "z" -> 3

\* The reservation expiration policy (time-to-live of a new reservation).
ReservationTTL == 1

NoTenant == "none"
EmptyMap == [k \in {} |-> 0]
NoOutcome == [proc |-> "none", kind |-> "none", id |-> 0, overs |-> <<>>,
              tenant |-> NoTenant, deltas |-> EmptyMap, counted |-> EmptyMap,
              purged |-> {}, attempts |-> 0]

\* The `deltas` arguments the callers pass (resource kind -> requested
\* increment): nothing or one unit of a counted kind, one unit of each of
\* two counted kinds, and an uncounted kind beside a counted one.
DeltaMaps ==
    {[k \in {"a"} |-> n] : n \in {0, 1}}
    \cup {[k \in {"a", "b"} |-> 1]}
    \cup {[k \in {"a", "z"} |-> 1]}

\* The calls made: project t1 passes every map, project t2 one of them.
Calls ==
    {<<"t1", d>> : d \in DeltaMaps} \cup {<<"t2", [k \in {"a"} |-> 1]>>}

VARIABLES
    now,                   \* utcnow()
    limit,                 \* the quotas of every project (Limit Provider)
    used,                  \* committed units per project and counted kind
    reservations,          \* the committed rows of the reservations table
    nextId,                \* source of fresh reservation ids
    pc,                    \* position of each caller in make_reservation
    project_id,            \* argument of the call in progress
    deltas,                \* argument of the call in progress
    requested_resources,   \* kinds the for loop has still to visit
    resources_over_limit,  \* the list built by the for loop
    counted,               \* used_and_reserved as read for each visited kind
    txDeleted,             \* rows deleted by the open transaction
    attempts,              \* retries made by the decorator for this call
    outcome                \* what the step just taken returned or raised, if it ended a call

vars == <<now, limit, used, reservations, nextId, pc, project_id, deltas,
          requested_resources, resources_over_limit, counted, txDeleted,
          attempts, outcome>>

store == <<now, limit, used, reservations, nextId>>

\* ---------------------------------------------------------------- helpers
Range(s) == {s[i] : i \in DOMAIN s}

RECURSIVE SumDeltas(_, _)
SumDeltas(rows, k) ==
    IF rows = {} THEN 0
    ELSE LET x == CHOOSE y \in rows : TRUE
         IN (IF k \in DOMAIN x.deltas THEN x.deltas[k] ELSE 0)
            + SumDeltas(rows \ {x}, k)

\* A reservation is expired when its expiration is at or before the time.
Expired(x, t) == x.expiration <= t

\* A purge that is not scoped to a project.
ExpiredRowsOfAnyTenant(t) == {x \in reservations : Expired(x, now)}

\* quota_api.remove_expired_reservations(context, tenant_id): the rows it
\* deletes.
ExpiredRows(t) == {x \in reservations : x.tenant = t /\ Expired(x, now)}

\* The rows the transaction of p sees: committed rows minus its own deletes.
Visible(p) == {x \in reservations : x.id \notin txDeleted[p]}

\* A counter that adds the units of every stored reservation, expired or not.
CountIncludingExpired(rows, t, k) ==
    used[t][k] + SumDeltas({x \in rows : x.tenant = t}, k)

\* tracked_resource.count(context, None, project_id, count_db_registers=True):
\* committed units plus the units held by unexpired reservations.
Count(rows, t, k) ==
    used[t][k]
    + SumDeltas({x \in rows : x.tenant = t /\ ~Expired(x, now)}, k)

\* self.get_tenant_quotas(context, resources, project_id)
get_tenant_quotas(t) == limit[t]

\* Unlimited taken as a limit below -1.
UnlimitedBelowMinusOne(limits) == {k \in DOMAIN limits : limits[k] < -1}

\* unlimited_resources: the kinds of `limits` whose limit is negative.
UnlimitedResources(limits) == {k \in DOMAIN limits : limits[k] < 0}

\* requested_resources = set(deltas.keys()) - unlimited_resources
RequestedResources(d, limits) == (DOMAIN d) \ UnlimitedResources(limits)

\* The comparison with the limit taken as exclusive.
OverLimitExclusive(lim, used_and_reserved, resource_num) ==
    lim <= (used_and_reserved + resource_num)

\* The comparison without the requested amount.
OverLimitIgnoresDelta(lim, used_and_reserved, resource_num) ==
    lim < used_and_reserved

\* The comparison off by one in favour of the request.
OverLimitOffByOne(lim, used_and_reserved, resource_num) ==
    lim + 1 < (used_and_reserved + resource_num)

\* The comparison with a limit of 0 taken as no limit.
OverLimitZeroIsNoLimit(lim, used_and_reserved, resource_num) ==
    lim # 0 /\ lim < (used_and_reserved + resource_num)

\* limits[resource_name] < (used_and_reserved + resource_num)
OverLimit(lim, used_and_reserved, resource_num) ==
    lim < (used_and_reserved + resource_num)

\* sorted(list): insertion of each element at its place in name order.
Insert(s, k) ==
    LET before == SelectSeq(s, LAMBDA e : Rank(e) <= Rank(k))
        after == SelectSeq(s, LAMBDA e : Rank(e) > Rank(k))
    IN before \o <<k>> \o after

\* The list as the loop built it.
Unsorted(s) == s

RECURSIVE sorted(_)
sorted(s) == IF s = <<>> THEN <<>> ELSE Insert(sorted(Tail(s)), Head(s))

\* An id taken from the number of rows stored.
create_reservation_reusing_id(t, d) ==
    [id |-> Cardinality(reservations) + 1, tenant |-> t, deltas |-> d,
     expiration |-> now + ReservationTTL]

\* quota_api.create_reservation(context, project_id, deltas): the new row.
create_reservation(t, d) ==
    [id |-> nextId, tenant |-> t, deltas |-> d,
     expiration |-> now + ReservationTTL]

\* quota_api.remove_reservation(context, reservation_id, set_dirty=False)
remove_reservation(rows, id) == {x \in rows : x.id # id}

InTransaction(p) == pc[p] \in {"purge", "count"}

\* ------------------------------------------------------------------- Init
\* An empty reservations table and nothing committed.  The quotas are the
\* default quotas, the same for every project, and do not change.
Init ==
    /\ now = 0
    /\ \E f \in [Catalog -> -1..MaxLimit] : limit = [t \in Tenants |-> f]
    /\ used = [t \in Tenants |-> [k \in Catalog |-> 0]]
    /\ reservations = {}
    /\ nextId = 1
    /\ pc = [p \in Procs |-> "idle"]
    /\ project_id = [p \in Procs |-> NoTenant]
    /\ deltas = [p \in Procs |-> EmptyMap]
    /\ requested_resources = [p \in Procs |-> {}]
    /\ resources_over_limit = [p \in Procs |-> <<>>]
    /\ counted = [p \in Procs |-> EmptyMap]
    /\ txDeleted = [p \in Procs |-> {}]
    /\ attempts = [p \in Procs |-> 0]
    /\ outcome = NoOutcome

\* ---------------------------------------------------------------- actions
\* Entry of an attempt (lines 45-51): the list is emptied, the transaction
\* opens, the limits are fetched and the unlimited kinds are filtered out.
Enter(p, t, d, n) ==
    /\ pc' = [pc EXCEPT ![p] = "purge"]
    /\ project_id' = [project_id EXCEPT ![p] = t]
    /\ deltas' = [deltas EXCEPT ![p] = d]
    /\ requested_resources' =
          [requested_resources EXCEPT
              ![p] = RequestedResources(d, get_tenant_quotas(t))]
    /\ resources_over_limit' = [resources_over_limit EXCEPT ![p] = <<>>]
    /\ counted' = [counted EXCEPT ![p] = EmptyMap]
    /\ txDeleted' = [txDeleted EXCEPT ![p] = {}]
    /\ attempts' = [attempts EXCEPT ![p] = n]
    /\ outcome' = NoOutcome

\* What a call that ends hands to its caller, with the frame it ended in.
Outcome(p, kind, id, overs) ==
    [proc |-> p, kind |-> kind, id |-> id, overs |-> overs,
     tenant |-> project_id[p], deltas |-> deltas[p], counted |-> counted[p],
     purged |-> txDeleted[p], attempts |-> attempts[p]]

\* The call returns or raises: its frame and its transaction are gone.
Return(p) ==
    /\ pc' = [pc EXCEPT ![p] = "idle"]
    /\ project_id' = [project_id EXCEPT ![p] = NoTenant]
    /\ deltas' = [deltas EXCEPT ![p] = EmptyMap]
    /\ requested_resources' = [requested_resources EXCEPT ![p] = {}]
    /\ resources_over_limit' = [resources_over_limit EXCEPT ![p] = <<>>]
    /\ counted' = [counted EXCEPT ![p] = EmptyMap]
    /\ txDeleted' = [txDeleted EXCEPT ![p] = {}]
    /\ attempts' = [attempts EXCEPT ![p] = 0]

\* A caller calls make_reservation(context, project_id, resources, deltas).
make_reservation(p, t, d) ==
    /\ pc[p] = "idle"
    /\ nextId + Cardinality({q \in Procs : InTransaction(q)}) <= MaxId
    /\ Enter(p, t, d, 0)
    /\ UNCHANGED store

\* Lines 56-57: the expired reservations of the project are deleted.
Purge(p) ==
    /\ pc[p] = "purge"
    /\ txDeleted' = [txDeleted EXCEPT
                        ![p] = {x.id : x \in ExpiredRows(project_id[p])}]
    /\ pc' = [pc EXCEPT ![p] = "count"]
    /\ outcome' = NoOutcome
    /\ UNCHANGED <<store, project_id, deltas, requested_resources,
                   resources_over_limit, counted, attempts>>

\* An uncounted kind taken as over its limit.
IsOverLimitUnknownFails(p, k) ==
    \/ k \notin Catalog
    \/ OverLimit(get_tenant_quotas(project_id[p])[k],
                 Count(Visible(p), project_id[p], k), deltas[p][k])

\* Lines 62-69: whether the iteration on kind k finds it over its limit.  A
\* kind without a tracked resource is skipped.
IsOverLimit(p, k) ==
    LET tracked_resource == k \in Catalog
    IN /\ tracked_resource
       /\ LET limits == get_tenant_quotas(project_id[p])
              used_and_reserved == Count(Visible(p), project_id[p], k)
              resource_num == deltas[p][k]
          IN OverLimit(limits[k], used_and_reserved, resource_num)

\* Lines 61-70: one iteration of the for loop, on any kind still to visit
\* (a set is iterated in no particular order).
CountStep(p, k) ==
    /\ pc[p] = "count"
    /\ k \in requested_resources[p]
    /\ requested_resources' =
          [requested_resources EXCEPT ![p] = @ \ {k}]
    /\ counted' =
          [counted EXCEPT
              ![p] = IF k \in Catalog
                     THEN (k :> Count(Visible(p), project_id[p], k)) @@ @
                     ELSE @]
    /\ resources_over_limit' =
          [resources_over_limit EXCEPT
              ![p] = IF IsOverLimit(p, k) THEN Append(@, k) ELSE @]
    /\ outcome' = NoOutcome
    /\ UNCHANGED <<store, pc, project_id, deltas, txDeleted, attempts>>

\* The table if the kinds within their limits were reserved all the same.
AfterPartialCommit(p) ==
    LET fits == {k \in DOMAIN deltas[p] : k \notin Range(resources_over_limit[p])}
    IN {x \in reservations : x.id \notin txDeleted[p]}
       \cup {create_reservation(project_id[p], [k \in fits |-> deltas[p][k]])}

\* The table if the deletes of the purge outlived the failure.
AfterPurgeKept(p) == {x \in reservations : x.id \notin txDeleted[p]}

\* Lines 46, 73: the with block is left by an exception; the transaction is
\* rolled back and the table keeps its committed rows.
AfterRollback(p) == reservations

\* The table if a commit applied the insert without the deletes.
AfterCommitKeepingPurged(p, new) == reservations \cup {new}

\* The table after the transaction committed its deletes and its insert.
AfterCommit(p, new) ==
    {x \in reservations : x.id \notin txDeleted[p]} \cup {new}

\* Lines 72-73: the list is not empty: OverQuota is raised and the
\* transaction is rolled back.
RaiseOverQuota(p) ==
    /\ pc[p] = "count"
    /\ requested_resources[p] = {}
    /\ resources_over_limit[p] # <<>>
    /\ outcome' = Outcome(p, "OverQuota", 0, sorted(resources_over_limit[p]))
    /\ reservations' = AfterRollback(p)
    /\ Return(p)
    /\ UNCHANGED <<now, limit, used, nextId>>

\* Only the deltas of the kinds that were checked.
StoredLimitedDeltas(p) ==
    [k \in RequestedResources(deltas[p], get_tenant_quotas(project_id[p]))
        |-> deltas[p][k]]

\* Line 75: the third argument of create_reservation is `deltas` itself.
StoredDeltas(p) == deltas[p]

\* A commit that fails when a row the transaction deleted is already gone.
CreateReservationStrict(p) ==
    /\ pc[p] = "count"
    /\ requested_resources[p] = {}
    /\ resources_over_limit[p] = <<>>
    /\ \A id \in txDeleted[p] : \E x \in reservations : x.id = id
    /\ LET new == create_reservation(project_id[p], StoredDeltas(p))
       IN /\ reservations' = AfterCommit(p, new)
          /\ outcome' = Outcome(p, "Reservation", new.id, <<>>)
    /\ nextId' = nextId + 1
    /\ Return(p)
    /\ UNCHANGED <<now, limit, used>>

\* Line 75 and the exit of the with block: the reservation is created and
\* the transaction commits its deletes and its insert.
CreateReservation(p) ==
    /\ pc[p] = "count"
    /\ requested_resources[p] = {}
    /\ resources_over_limit[p] = <<>>
    /\ LET new == create_reservation(project_id[p], StoredDeltas(p))
       IN /\ reservations' = AfterCommit(p, new)
          /\ outcome' = Outcome(p, "Reservation", new.id, <<>>)
    /\ nextId' = nextId + 1
    /\ Return(p)
    /\ UNCHANGED <<now, limit, used>>

\* A retry that resumes the attempt where it failed.
RetryResuming(p) ==
    /\ InTransaction(p)
    /\ attempts[p] < MaxRetries
    /\ attempts' = [attempts EXCEPT ![p] = @ + 1]
    /\ outcome' = NoOutcome
    /\ UNCHANGED <<store, pc, project_id, deltas, requested_resources,
                   resources_over_limit, counted, txDeleted>>

\* A decorator that retries without counting its retries against a bound.
RetryWithoutBound(p) ==
    /\ InTransaction(p)
    /\ Enter(p, project_id[p], deltas[p], attempts[p] + 1)
    /\ UNCHANGED store

\* Line 43: a retriable database error ends the attempt; the transaction is
\* rolled back and the decorator calls the method again from its first line.
RetryAttempt(p) ==
    /\ InTransaction(p)
    /\ attempts[p] < MaxRetries
    /\ Enter(p, project_id[p], deltas[p], attempts[p] + 1)
    /\ UNCHANGED store

\* Line 43: the retries are exhausted and the database error is raised.
RaiseDBError(p) ==
    /\ InTransaction(p)
    /\ attempts[p] = MaxRetries
    /\ outcome' = Outcome(p, "DBError", 0, <<>>)
    /\ Return(p)
    /\ UNCHANGED store

\* A cancellation that fails when the id is not in the table.
cancel_existing_reservation(id) ==
    /\ \E x \in reservations : x.id = id
    /\ reservations' = remove_reservation(reservations, id)
    /\ outcome' = NoOutcome
    /\ UNCHANGED <<now, limit, used, nextId, pc, project_id, deltas,
                   requested_resources, resources_over_limit, counted,
                   txDeleted, attempts>>

\* Lines 77-78: cancel_reservation(context, reservation_id).
cancel_reservation(id) ==
    /\ reservations' = remove_reservation(reservations, id)
    /\ outcome' = NoOutcome
    /\ UNCHANGED <<now, limit, used, nextId, pc, project_id, deltas,
                   requested_resources, resources_over_limit, counted,
                   txDeleted, attempts>>

\* The caller commits a reservation it has acted on before its expiry: the
\* units become committed units and the row is deleted.
commit_reservation(id) ==
    /\ \E x \in reservations :
          /\ x.id = id
          /\ ~Expired(x, now)
          /\ used' = [used EXCEPT
                         ![x.tenant] =
                            [k \in Catalog |->
                                @[k] + (IF k \in DOMAIN x.deltas
                                        THEN x.deltas[k] ELSE 0)]]
          /\ reservations' = remove_reservation(reservations, id)
    /\ outcome' = NoOutcome
    /\ UNCHANGED <<now, limit, nextId, pc, project_id, deltas,
                   requested_resources, resources_over_limit, counted,
                   txDeleted, attempts>>

\* Time passes.
Tick ==
    /\ now < MaxTime
    /\ now' = now + 1
    /\ outcome' = NoOutcome
    /\ UNCHANGED <<limit, used, reservations, nextId, pc, project_id, deltas,
                   requested_resources, resources_over_limit, counted,
                   txDeleted, attempts>>

\* The steps inside a call, and the other operations.
Step ==
    \/ \E p \in Procs : Purge(p)
    \/ \E p \in Procs, k \in Kinds : CountStep(p, k)
    \/ \E p \in Procs : RaiseOverQuota(p)
    \/ \E p \in Procs : CreateReservation(p)
    \/ \E id \in 1..MaxId : cancel_reservation(id)
    \/ \E id \in 1..MaxId : commit_reservation(id)
    \/ Tick

\* Concurrent callers: a call may start while another is in its transaction.
Next ==
    \/ \E p \in Procs, c \in Calls : make_reservation(p, c[1], c[2])
    \/ Step

Spec == Init /\ [][Next]_vars

\* Serialized callers: a transaction starts after the previous one ended.
NextSerial ==
    \/ \E p \in Procs, c \in Calls :
          /\ \A q \in Procs : ~InTransaction(q)
          /\ make_reservation(p, c[1], c[2])
    \/ Step

SpecSerial == Init /\ [][NextSerial]_vars

\* Serialized callers whose transactions may hit retriable database errors.
NextRetry ==
    \/ NextSerial
    \/ \E p \in Procs : RetryAttempt(p)
    \/ \E p \in Procs : RaiseDBError(p)

SpecRetry == Init /\ [][NextRetry]_vars

\* The calls followed to their end: one kind, two kinds, another project.
LiveCalls ==
    {<<"t1", [k \in {"a"} |-> 1]>>, <<"t1", [k \in {"a", "b"} |-> 1]>>,
     <<"t2", [k \in {"a"} |-> 1]>>}

\* Concurrent callers whose transactions may hit retriable database errors.
NextLive ==
    \/ \E p \in Procs, c \in LiveCalls : make_reservation(p, c[1], c[2])
    \/ Step
    \/ \E p \in Procs : RetryAttempt(p)
    \/ \E p \in Procs : RaiseDBError(p)

\* A call that was started keeps running: its next statement is executed
\* whatever the other callers do.  The clock advances.  Nothing obliges a
\* caller to start a call, to cancel or to commit, nor a database error to
\* happen.
Fairness ==
    /\ \A p \in Procs :
          /\ WF_vars(Purge(p))
          /\ WF_vars(\E k \in Kinds : CountStep(p, k))
          /\ WF_vars(RaiseOverQuota(p))
          /\ WF_vars(CreateReservation(p))
    /\ WF_vars(Tick)

SpecLive == Init /\ [][NextLive]_vars /\ Fairness

\* ================================================================ claims
\* Vocabulary of the claims, stated on the store itself.
Ended == outcome.kind \in {"Reservation", "OverQuota"}
Limited(t, k) == k \in Catalog /\ limit[t][k] >= 0
Unlimited(t, k) == k \in Catalog /\ limit[t][k] < 0
\* Committed units plus units held by unexpired reservations.
Total(t, k) ==
    used[t][k]
    + SumDeltas({x \in reservations : x.tenant = t /\ x.expiration > now}, k)
\* The kinds of the call that just ended which were checked against a limit.
Checked == {k \in DOMAIN outcome.deltas : Limited(outcome.tenant, k)}
Wanted(k) == outcome.counted[k] + outcome.deltas[k]

\* C1: quota boundary.  For the call that just ended and every limited,
\* counted kind it requested: used_and_reserved + delta above the limit makes
\* the call fail with OverQuota naming the kind; at the limit or below it the
\* kind is not named, and the call succeeds when no requested kind is above.
QuotaBoundary ==
    Ended =>
       /\ \A k \in Checked :
             /\ k \in DOMAIN outcome.counted
             /\ Wanted(k) > limit[outcome.tenant][k]
                   => outcome.kind = "OverQuota" /\ k \in Range(outcome.overs)
             /\ Wanted(k) <= limit[outcome.tenant][k]
                   => k \notin Range(outcome.overs)
       /\ (\A k \in Checked : Wanted(k) <= limit[outcome.tenant][k])
             => outcome.kind = "Reservation"

\* C1 witness: a call for one unit succeeded with used_and_reserved + delta
\* exactly at the limit.
QuotaBoundaryWitness ==
    /\ outcome.kind = "Reservation"
    /\ \E k \in Checked :
          /\ outcome.deltas[k] = 1
          /\ Wanted(k) = limit[outcome.tenant][k]

\* C2: atomicity.  A step that ends a call with OverQuota adds no row to the
\* reservations table and issues no id.
NoPartialReservation ==
    [][outcome'.kind = "OverQuota"
          => reservations' \subseteq reservations /\ nextId' = nextId]_vars

\* C2 witness: a call for two kinds failed with one of them over its limit
\* and the other within its limit.
NoPartialReservationWitness ==
    /\ outcome.kind = "OverQuota"
    /\ Cardinality(Checked) = 2
    /\ Len(outcome.overs) = 1

\* C3: serialized enforcement.  For every project and every limited, counted
\* kind, committed units plus unexpired reserved units stay within the limit.
SerializedWithinLimit ==
    \A t \in Tenants, k \in Catalog : Limited(t, k) => Total(t, k) <= limit[t][k]

\* C3 witness: an earlier reservation, still unexpired, has brought a kind
\* to its limit, and a further request for one unit of that kind has just
\* failed with OverQuota naming it.
SerializedWithinLimitWitness ==
    /\ outcome.kind = "OverQuota"
    /\ \E k \in Checked :
          /\ outcome.overs = <<k>>
          /\ outcome.deltas[k] = 1
          /\ Total(outcome.tenant, k) = limit[outcome.tenant][k]
          /\ Total(outcome.tenant, k) > used[outcome.tenant][k]

\* C4: unlimited passthrough.  No kind with a negative limit is named by an
\* OverQuota failure, and a call whose kinds all have a negative limit ends
\* with a reservation.
UnlimitedPassthrough ==
    Ended =>
       /\ \A k \in Range(outcome.overs) : ~Unlimited(outcome.tenant, k)
       /\ (\A k \in DOMAIN outcome.deltas : Unlimited(outcome.tenant, k))
             => outcome.kind = "Reservation"

\* C4 witness: a call for an unlimited kind succeeded and the project now
\* holds more units of it than any finite limit of the model.
UnlimitedPassthroughWitness ==
    /\ outcome.kind = "Reservation"
    /\ \A k \in DOMAIN outcome.deltas :
          /\ Unlimited(outcome.tenant, k)
          /\ outcome.deltas[k] >= 1
          /\ Total(outcome.tenant, k) > MaxLimit

\* C5 as claimed: no stored reservation holds a delta of an unlimited kind.
StoredDeltasLimitedOnly ==
    \A x \in reservations :
       \A k \in DOMAIN x.deltas : ~Unlimited(x.tenant, k)

\* C5 as amended: the reservation a successful call persists holds the whole
\* delta map of the request, unlimited kinds included; the unlimited kinds
\* are left out of the limit check only.
StoredDeltasWholeRequest ==
    outcome.kind = "Reservation" =>
       /\ \E x \in reservations :
             /\ x.id = outcome.id
             /\ x.tenant = outcome.tenant
             /\ x.deltas = outcome.deltas
       /\ \A k \in DOMAIN outcome.counted : ~Unlimited(outcome.tenant, k)

\* C5 witness: a successful call for a limited and an unlimited kind stored
\* the deltas of both.
StoredDeltasWitness ==
    /\ outcome.kind = "Reservation"
    /\ \E x \in reservations :
          /\ x.id = outcome.id
          /\ \E k \in DOMAIN x.deltas : Unlimited(x.tenant, k) /\ x.deltas[k] >= 1
          /\ \E k \in DOMAIN x.deltas : Limited(x.tenant, k)

\* C6: complete and deterministic OverQuota list.  The list of a failed call
\* holds exactly the requested kinds that are limited, counted and over their
\* limit, each once, in ascending name order; a call with such a kind fails.
OverQuotaListExact ==
    Ended =>
       LET over == {k \in Checked : Wanted(k) > limit[outcome.tenant][k]}
       IN /\ Range(outcome.overs) = over
          /\ Len(outcome.overs) = Cardinality(over)
          /\ \A i, j \in DOMAIN outcome.overs :
                i < j => Rank(outcome.overs[i]) < Rank(outcome.overs[j])
          /\ outcome.kind = "OverQuota" <=> over # {}

\* C6 witness: a call failed with two kinds over their limits.
OverQuotaListWitness ==
    /\ outcome.kind = "OverQuota"
    /\ outcome.overs = <<"a", "b">>

\* C7: idempotent cancellation.  cancel_reservation can be called with any
\* id in any state; after the call the id is absent, a second call with the
\* same id would change nothing, and every other reservation, the committed
\* units and the calls in progress are as they were.
CancelIdempotent ==
    /\ [](\A id \in 1..MaxId : ENABLED cancel_reservation(id))
    /\ [][\A id \in 1..MaxId :
             cancel_reservation(id) =>
                /\ \A x \in reservations' : x.id # id
                /\ remove_reservation(reservations', id) = reservations'
                /\ {x \in reservations : x.id # id} = reservations'
                /\ used' = used /\ nextId' = nextId /\ pc' = pc]_vars

\* C7 witness: at time 0, with no unit committed, the first reservation
\* created is gone from the table while later ones are still stored.
CancelIdempotentWitness ==
    /\ now = 0
    /\ \A t \in Tenants, k \in Catalog : used[t][k] = 0
    /\ nextId = MaxId + 1
    /\ {x.id : x \in reservations} = 2..MaxId
    /\ \A x \in reservations : x.deltas # [k \in {"a"} |-> 0]

\* C8: unknown resource kind is permissive.  A kind without a counting
\* capability is never put on the over-limit list, never named by OverQuota,
\* and a call ends with OverQuota only if a counted kind is over its limit.
UnknownKindPermissive ==
    /\ \A p \in Procs : Range(resources_over_limit[p]) \subseteq Catalog
    /\ Ended =>
          /\ Range(outcome.overs) \subseteq Catalog
          /\ outcome.kind = "OverQuota"
                <=> \E k \in Checked : Wanted(k) > limit[outcome.tenant][k]

\* C8 witness: a call naming an uncounted kind succeeded with its counted
\* kind exactly at the limit.
UnknownKindWitness ==
    /\ outcome.kind = "Reservation"
    /\ \E k \in DOMAIN outcome.deltas : k \notin Catalog
    /\ \E k \in Checked : Wanted(k) = limit[outcome.tenant][k] /\ Wanted(k) >= 1

\* C9: accepted overshoot.  The only step that takes committed plus
\* unexpired reserved units of a limited kind from within the limit to above
\* it is the commit of a reservation by a transaction whose count of that
\* kind was already stale, below what the table held when it committed.
OvershootOnlyByStaleCount ==
    [][\A t \in Tenants, k \in Catalog :
          \/ ~Limited(t, k)
          \/ Total(t, k)' <= limit[t][k]
          \/ Total(t, k) > limit[t][k]
          \/ \E p \in Procs :
                /\ pc[p] = "count"
                /\ project_id[p] = t
                /\ outcome'.kind = "Reservation"
                /\ outcome'.proc = p
                /\ k \in DOMAIN counted[p]
                /\ counted[p][k] < Total(t, k)]_vars

\* C9 witness: with a limit of 1 and nothing committed, two unexpired
\* reservations of one unit each are stored for the same project and kind;
\* the transaction that committed last had counted 0, as the first had to.
OvershootWitness ==
    /\ outcome.kind = "Reservation"
    /\ \E k \in Checked :
          /\ limit[outcome.tenant][k] = 1
          /\ used[outcome.tenant][k] = 0
          /\ outcome.counted[k] = 0
          /\ \E x, y \in reservations :
                /\ x.id # y.id /\ y.id = outcome.id
                /\ x.tenant = outcome.tenant /\ y.tenant = outcome.tenant
                /\ x.expiration > now /\ y.expiration > now
                /\ k \in DOMAIN x.deltas /\ x.deltas[k] = 1
                /\ y.deltas[k] = 1
          /\ Total(outcome.tenant, k) > limit[outcome.tenant][k]

\* C10: unique reservation ids.  The rows of the table have distinct ids,
\* and the id a successful call returns is above every id issued before it.
UniqueReservationIds ==
    /\ [](\A x, y \in reservations : x.id = y.id => x = y)
    /\ [](\A x \in reservations : x.id < nextId)
    /\ [][outcome'.kind = "Reservation"
             => /\ outcome'.id >= nextId
                /\ nextId' > outcome'.id
                /\ \A x \in reservations : x.id # outcome'.id
                /\ \E x \in reservations' : x.id = outcome'.id]_vars

\* C10 witness: two callers in turn were handed reservations; the ids of the
\* rows stored are all different.
UniqueReservationIdsWitness ==
    /\ outcome.kind = "Reservation"
    /\ outcome.id = MaxId
    /\ Cardinality(reservations) = MaxId
    /\ Cardinality({x.id : x \in reservations}) = MaxId

\* C11: purge precedes count.  Nothing is counted before the purge of the
\* attempt has run; the purge deletes the project's reservations whose
\* expiration is at or before the current time; and every count taken
\* afterwards equals the committed units plus the units of the reservations
\* still unexpired at that moment, so that an expired reservation adds
\* nothing to used_and_reserved and a kind is listed as over its limit only
\* on the strength of committed and unexpired units.
PurgePrecedesCount ==
    /\ [](\A p \in Procs :
            pc[p] = "purge"
               => counted[p] = EmptyMap /\ resources_over_limit[p] = <<>>)
    /\ [][\A p \in Procs :
             (pc[p] = "purge" /\ pc'[p] = "count")
                => txDeleted'[p] =
                      {x.id : x \in {y \in reservations :
                                        /\ y.tenant = project_id[p]
                                        /\ y.expiration <= now}}]_vars
    /\ [][\A p \in Procs, k \in Catalog :
             (k \notin DOMAIN counted[p] /\ k \in DOMAIN counted'[p])
                => /\ pc[p] = "count"
                   /\ counted'[p][k] = Total(project_id[p], k)
                   /\ k \in Range(resources_over_limit'[p])
                         <=> limit[project_id[p]][k]
                                < Total(project_id[p], k) + deltas[p][k]]_vars

\* C11 witness: a transaction has purged an expired reservation holding the
\* one unit the limit allows, then counted 0 for that kind and found its own
\* request of one unit within the limit.
PurgePrecedesCountWitness ==
    \E p \in Procs :
       /\ pc[p] = "count"
       /\ "a" \in DOMAIN counted[p]
       /\ counted[p]["a"] = 0
       /\ deltas[p]["a"] = 1
       /\ limit[project_id[p]]["a"] = 1
       /\ resources_over_limit[p] = <<>>
       /\ \E x \in reservations :
             /\ x.id \in txDeleted[p]
             /\ x.tenant = project_id[p]
             /\ x.expiration <= now
             /\ x.deltas["a"] = 1

\* C12: purge frame.  The rows a transaction has deleted in its purge are
\* expired reservations of its own project; when the transaction commits,
\* every row that leaves the table is one of those, and every unexpired row
\* of the project and every row of another project is still in the table,
\* unchanged.
PurgeFrame ==
    /\ [](\A p \in Procs : \A x \in reservations :
            x.id \in txDeleted[p]
               => x.tenant = project_id[p] /\ x.expiration <= now)
    /\ [][\A p \in Procs :
             (pc[p] = "count" /\ outcome'.kind = "Reservation"
                              /\ outcome'.proc = p)
                => /\ \A x \in reservations \ reservations' :
                         /\ x.id \in txDeleted[p]
                         /\ x.tenant = project_id[p]
                         /\ x.expiration <= now
                   /\ \A x \in reservations :
                         (x.tenant # project_id[p] \/ x.expiration > now)
                            => x \in reservations']_vars

\* C12 witness: a transaction that purged an expired reservation of its
\* project has committed; the row is gone, and an expired reservation of
\* another project is still in the table.
PurgeFrameWitness ==
    /\ outcome.kind = "Reservation"
    /\ outcome.purged # {}
    /\ \A x \in reservations : x.id \notin outcome.purged
    /\ \E y \in reservations :
          y.tenant # outcome.tenant /\ y.expiration <= now

\* C13: a failed attempt leaves the store unchanged.  The purge and the
\* counts of a transaction change nothing in the committed store, and the
\* step that ends a call with OverQuota leaves the reservations table, the
\* committed units and the id source exactly as they were: the expired
\* reservations the transaction had deleted are still in the table.
FailedAttemptLeavesStore ==
    /\ [][\A p \in Procs :
             (InTransaction(p) /\ outcome'.kind # "Reservation"
                /\ (pc'[p] # pc[p]
                      \/ requested_resources'[p] # requested_resources[p]))
                => store' = store]_vars
    /\ [][outcome'.kind = "OverQuota"
             => /\ store' = store
                /\ \A x \in reservations :
                      x.id \in outcome'.purged => x \in reservations']_vars

\* C13 witness: a call that had purged an expired reservation of its project
\* failed with OverQuota, and the purged reservation is in the table.
FailedAttemptWitness ==
    /\ outcome.kind = "OverQuota"
    /\ outcome.purged # {}
    /\ \A id \in outcome.purged :
          \E x \in reservations :
             /\ x.id = id
             /\ x.tenant = outcome.tenant
             /\ x.expiration <= now

\* C14: a retry restarts from scratch.  The step that retries a call after a
\* database error changes nothing in the store and leaves the call at its
\* first statement with the same arguments, an empty over-limit list, no
\* count, no delete of the failed attempt and the kinds to check computed
\* again from the limits; and a row enters the table only by the step that
\* ends a call, one row at a time, so one call creates at most one
\* reservation however often it was retried.
RetryRestartsFromScratch ==
    /\ [][\A p \in Procs :
             attempts'[p] > attempts[p]
                => /\ store' = store
                   /\ pc'[p] = "purge"
                   /\ project_id'[p] = project_id[p]
                   /\ deltas'[p] = deltas[p]
                   /\ resources_over_limit'[p] = <<>>
                   /\ counted'[p] = EmptyMap
                   /\ txDeleted'[p] = {}
                   /\ requested_resources'[p] =
                         {k \in DOMAIN deltas[p] :
                             ~(k \in Catalog /\ limit'[project_id[p]][k] < 0)}]_vars
    /\ [][(reservations' \ reservations # {} \/ nextId' # nextId)
             => /\ Cardinality(reservations' \ reservations) = 1
                /\ nextId' = nextId + 1
                /\ outcome'.kind = "Reservation"
                /\ \E p \in Procs :
                      /\ outcome'.proc = p
                      /\ pc[p] = "count" /\ pc'[p] = "idle"
                      /\ attempts'[p] = 0]_vars

\* C14 witness: the first call made was retried as often as the decorator
\* allows and ended with the only reservation in the table.
RetryWitness ==
    /\ outcome.kind = "Reservation"
    /\ outcome.attempts = MaxRetries
    /\ outcome.id = 1
    /\ nextId = 2
    /\ Cardinality(reservations) = 1

\* C15 as claimed: if the clock has passed the expiry of a reservation and
\* attempts for its project keep running their purge, the reservation is
\* eventually absent from the table.
LifecycleEndsInDeletion ==
    \A t \in Tenants, id \in 1..MaxId :
       []<><<\E p \in Procs : Purge(p) /\ project_id[p] = t>>_vars
          => ((\E x \in reservations :
                  x.id = id /\ x.tenant = t /\ x.expiration <= now)
                ~> (\A x \in reservations : x.id # id))

\* C15 as amended: a reservation leaves the table by a cancel or a commit of
\* its id, or, once expired, by the purge of an attempt for its project that
\* succeeds; a successful attempt removes every reservation it purged, and
\* an attempt that fails with OverQuota removes none.
LifecycleDeletionPaths ==
    /\ [][\A x \in reservations \ reservations' :
             IF outcome'.kind = "Reservation"
             THEN /\ x.id \in outcome'.purged
                  /\ x.tenant = outcome'.tenant
                  /\ x.expiration <= now
             ELSE /\ reservations' = remove_reservation(reservations, x.id)
                  /\ outcome'.kind = "none"]_vars
    /\ [][\A p \in Procs :
             (pc[p] = "count" /\ outcome'.kind = "Reservation"
                              /\ outcome'.proc = p)
                => \A x \in reservations :
                      x.id \in txDeleted[p] => x \notin reservations']_vars
    /\ [][outcome'.kind \in {"OverQuota", "DBError"}
             => reservations \subseteq reservations']_vars

\* C15 witness: the first reservation, never committed, expired and was
\* removed by the purge of a later attempt for its project that succeeded.
LifecycleWitness ==
    /\ outcome.kind = "Reservation"
    /\ outcome.purged = {1}
    /\ \A x \in reservations : x.id # 1
    /\ \A t \in Tenants, k \in Catalog : used[t][k] = 0
    /\ now = 1

\* C16: concurrent deletes are safe.  Whatever the other callers, cancels
\* and commits have done to the table, a transaction can always take its
\* next step: the purge, and at the end of the loop the raise or the commit;
\* after a commit no id the transaction purged is in the table, whether the
\* row was still there or had been deleted by someone else; and a row that
\* is not expired leaves the table only by a cancel or a commit of its id.
ConcurrentDeletesSafe ==
    /\ [](\A p \in Procs :
            /\ pc[p] = "purge" => ENABLED Purge(p)
            /\ (pc[p] = "count" /\ requested_resources[p] = {})
                  => ENABLED (RaiseOverQuota(p) \/ CreateReservation(p)))
    /\ [][\A p \in Procs :
             (pc[p] = "count" /\ outcome'.kind = "Reservation"
                              /\ outcome'.proc = p)
                => \A x \in reservations' : x.id \notin txDeleted[p]]_vars
    /\ [][\A x \in reservations \ reservations' :
             \/ x.expiration <= now
             \/ /\ outcome'.kind = "none"
                /\ reservations' = {y \in reservations : y.id # x.id}]_vars

\* C16 witness: two transactions purged the same expired reservation; one
\* has just committed and the row is gone, the other is still counting with
\* the row among its deletes.
ConcurrentDeletesWitness ==
    /\ outcome.kind = "Reservation"
    /\ outcome.purged # {}
    /\ \E p \in Procs :
          /\ pc[p] = "count"
          /\ p # outcome.proc
          /\ txDeleted[p] = outcome.purged
    /\ \A x \in reservations : x.id \notin outcome.purged

\* C17 as claimed: every call that ends and requested a counted kind whose
\* limit is 0 failed with OverQuota naming the kind.
LimitZeroBlocksEveryRequest ==
    Ended =>
       \A k \in Checked :
          limit[outcome.tenant][k] = 0
             => outcome.kind = "OverQuota" /\ k \in Range(outcome.overs)

\* C17 as amended: a call that requested one unit or more of a counted kind
\* whose limit is 0 failed with OverQuota naming the kind, whatever the count
\* was; a request of 0 units of such a kind is named only if units of the
\* kind are already counted.
LimitZeroBlocksPositiveRequests ==
    /\ \A u \in 0..MaxId, n \in 1..MaxId : OverLimit(0, u, n)
    /\ Ended =>
          \A k \in Checked :
             limit[outcome.tenant][k] = 0
                => /\ outcome.deltas[k] >= 1
                         => /\ outcome.kind = "OverQuota"
                            /\ k \in Range(outcome.overs)
                   /\ outcome.deltas[k] = 0
                         => (k \in Range(outcome.overs)
                                <=> outcome.counted[k] > 0)

\* C17 witness: a call for one unit of each of two kinds failed with
\* OverQuota naming only the kind whose limit is 0, of which nothing was
\* counted.
LimitZeroWitness ==
    /\ outcome.kind = "OverQuota"
    /\ \E k \in Checked :
          /\ limit[outcome.tenant][k] = 0
          /\ outcome.counted[k] = 0
          /\ outcome.deltas[k] = 1
          /\ outcome.overs = <<k>>
    /\ Cardinality(Checked) = 2

\* C18: no blocking between attempts, and termination.  A transaction in
\* progress can always take its next step, whatever the other callers are
\* doing, for the same project or another; the retries of a call never
\* exceed the bound, and the database error is raised only when they are
\* exhausted, with nothing persisted and no kind named; and every call that
\* was started ends: with a reservation, with OverQuota or with the database
\* error.
NoBlockingAndTermination ==
    /\ [](\A p \in Procs :
            /\ pc[p] = "purge" => ENABLED Purge(p)
            /\ pc[p] = "count"
                  => ENABLED (\/ \E k \in Kinds : CountStep(p, k)
                              \/ RaiseOverQuota(p)
                              \/ CreateReservation(p))
            /\ attempts[p] <= MaxRetries)
    /\ [][outcome'.kind = "DBError"
             => /\ store' = store
                /\ outcome'.overs = <<>>
                /\ outcome'.attempts = MaxRetries]_vars
    /\ \A p \in Procs :
          InTransaction(p)
             ~> (outcome.proc = p
                   /\ outcome.kind \in {"Reservation", "OverQuota", "DBError"}
                   /\ pc[p] = "idle")

\* C18 witness: a call has ended with the database error after its last
\* retry while another caller is in a transaction for the same project.
NoBlockingWitness ==
    /\ outcome.kind = "DBError"
    /\ outcome.attempts = MaxRetries
    /\ \E q \in Procs :
          /\ q # outcome.proc
          /\ InTransaction(q)
          /\ project_id[q] = outcome.tenant
          /\ attempts[q] >= 1

====
